---- MODULE Spec2Model ----
(***************************************************************************)
(* A model of the mcp-typescript server's handlers: the compiler          *)
(* (compileFile, compileSingleFile, compileProject, setupWatchMode,       *)
(* stopWatching), the type checker (checkTypes, checkSingleFile,          *)
(* checkProject, getDiagnostics) and the configuration manager            *)
(* (updateTsConfig, createTsConfig, validateConfig), over a small file    *)
(* system.                                                                 *)
(*                                                                         *)
(* JavaScript values are encoded as strings: the booleans are "true" and  *)
(* "false", undefined (an absent key) is "undefined", every other string  *)
(* is a JavaScript string.  A path is a record [abs, segs]: whether it is  *)
(* absolute, and its segments, each a record [base, ext].                  *)
(***************************************************************************)
EXTENDS Naturals, Sequences, FiniteSets, TLC

VARIABLES files, dirs, watcherMap, watchers, recompiles, updates, exited, last

vars == <<files, dirs, watcherMap, watchers, recompiles, updates, exited, last>>

---------------------------------------------------------------------------
(* JavaScript values *)

Undef == "undefined"

\* JavaScript truthiness of a value (x || y, if (x)).
Truthy(v) == v \notin {Undef, "false", ""}

\* typeof v === 'boolean'
IsBoolean(v) == v \in {"true", "false"}

\* !v as it is written in the source, on any value
Not(v) == IF Truthy(v) THEN "false" ELSE "true"

\* Values that are not strings in JavaScript: booleans, numbers ("#1"), arrays.
NonStrings == {"true", "false", "#1", "[ES2020]", "[src/**/*]", "[node_modules,dist]", "[#1]"}

\* typeof v === 'string'
IsString(v) == v # Undef /\ v \notin NonStrings

\* Array.isArray(v)
IsArray(v) == v \in {"[ES2020]", "[src/**/*]", "[node_modules,dist]", "[#1]"}

\* v.filter(item => typeof item !== 'string').length > 0, for an array v
HasNonStringItem(v) == v = "[#1]"

---------------------------------------------------------------------------
(* Paths: path.resolve, path.dirname, path.join, path.basename, path.extname *)

Seg(base, ext) == [base |-> base, ext |-> ext]

Dot == Seg(".", "")

DotDot == Seg("..", "")

AbsPath(segs) == [abs |-> TRUE, segs |-> segs]

RelPath(segs) == [abs |-> FALSE, segs |-> segs]

\* The request field that is absent (undefined) or the empty string: both falsy.
NoPath == RelPath(<<>>)

\* process.cwd()
Cwd == <<Seg("proj", "")>>

RECURSIVE NormalizeFrom(_, _, _)
\* The segments `segs` appended to `acc`, with "." dropped and ".." taking the
\* last segment away; at the start of an absolute path ".." stays at the root,
\* at the start of a relative one it is kept.
NormalizeFrom(abs, acc, segs) ==
    IF segs = <<>> THEN acc
    ELSE LET s == Head(segs) IN
         IF s = Dot THEN NormalizeFrom(abs, acc, Tail(segs))
         ELSE IF s = DotDot
              THEN IF acc # <<>> /\ acc[Len(acc)] # DotDot
                   THEN NormalizeFrom(abs, SubSeq(acc, 1, Len(acc) - 1), Tail(segs))
                   ELSE IF abs
                        THEN NormalizeFrom(abs, acc, Tail(segs))
                        ELSE NormalizeFrom(abs, Append(acc, s), Tail(segs))
              ELSE NormalizeFrom(abs, Append(acc, s), Tail(segs))

\* path.resolve(p): the absolute, normalized path, as its segments.
Resolve(p) == NormalizeFrom(TRUE, <<>>, IF p.abs THEN p.segs ELSE Cwd \o p.segs)

\* path.dirname of a resolved path; the root is its own parent.
Dirname(segs) == IF segs = <<>> THEN <<>> ELSE SubSeq(segs, 1, Len(segs) - 1)

\* path.join(dir, name) of a resolved directory and a file name.
Join(segs, s) == Append(segs, s)

\* resolved.endsWith('/'): only the root "/" does.
EndsWithSlash(segs) == segs = <<>>

TsConfigName == Seg("tsconfig", ".json")

RECURSIVE PathStr(_)
\* The resolved path as JavaScript sees it, a string.
PathStr(segs) ==
    IF segs = <<>> THEN ""
    ELSE PathStr(SubSeq(segs, 1, Len(segs) - 1)) \o "/"
             \o segs[Len(segs)].base \o segs[Len(segs)].ext

---------------------------------------------------------------------------
(* The file system: utils/file.ts *)

\* fs.existsSync: a directory or a file.
fileExists(fsFiles, fsDirs, segs) == segs \in fsDirs \/ segs \in DOMAIN fsFiles

RECURSIVE Ancestors(_)
\* A resolved path's directory chain, itself included, up to the root.
Ancestors(segs) ==
    IF segs = <<>> THEN {<<>>} ELSE {segs} \cup Ancestors(Dirname(segs))

\* writeFile: mkdir -p of the directory, then the file written.
writeFileDirs(fsDirs, segs) == fsDirs \cup Ancestors(Dirname(segs))

writeFileFiles(fsFiles, segs, content) ==
    [p \in DOMAIN fsFiles \cup {segs} |-> IF p = segs THEN content ELSE fsFiles[p]]

RECURSIVE findTsConfig(_, _, _)
\* findTsConfig(startDir): <<path>> when one is found, <<>> for null.  The loop
\* runs while (currentDir !== path.dirname(currentDir)).
findTsConfig(fsFiles, fsDirs, currentDir) ==
    IF currentDir # Dirname(currentDir)
    THEN IF fileExists(fsFiles, fsDirs, Join(currentDir, TsConfigName))
         THEN <<Join(currentDir, TsConfigName)>>
         ELSE findTsConfig(fsFiles, fsDirs, Dirname(currentDir))
    ELSE <<>>

\* isTypeScriptFile's pattern, /\.(ts|tsx)$/
IsTsExt(ext) == ext \in {".ts", ".tsx"}

\* getOutputPath(inputPath, outputDir): inputPath is resolved, outputDir is the
\* request's field as given.
getOutputPath(inputSegs, outputDir) ==
    LET name == inputSegs[Len(inputSegs)] IN
    IF outputDir # NoPath
    THEN [abs |-> outputDir.abs,
          segs |-> NormalizeFrom(outputDir.abs, <<>>,
                                 Append(outputDir.segs, Seg(name.base, ".js")))]
    ELSE AbsPath(IF IsTsExt(name.ext)
                 THEN Join(Dirname(inputSegs), Seg(name.base, ".js"))
                 ELSE inputSegs)

\* outputPath + '.map'
MapPath(p) ==
    LET name == p.segs[Len(p.segs)] IN
    [abs |-> p.abs,
     segs |-> Join(Dirname(p.segs), Seg(name.base, name.ext \o ".map"))]

---------------------------------------------------------------------------
(* Compiler options and configuration files *)

OptKeys ==
    {"target", "module", "moduleResolution", "lib", "outDir", "rootDir", "strict",
     "esModuleInterop", "skipLibCheck", "forceConsistentCasingInFileNames",
     "declaration", "declarationMap", "sourceMap", "baseUrl"}

\* {}: no key set.
NoOptions == [k \in OptKeys |-> Undef]

\* An object literal: the keys of `f` set, the others absent.
Options(f) == [k \in OptKeys |-> IF k \in DOMAIN f THEN f[k] ELSE Undef]

\* { ...a, ...b } and Object.assign(a, b): b's own keys over a's.
Spread(a, b) == [k \in OptKeys |-> IF b[k] # Undef THEN b[k] ELSE a[k]]

\* The JSON object of a tsconfig.json: compilerOptions, include, exclude and one
\* key the server does not know ("custom").
Config(co, include, exclude, custom) ==
    [compilerOptions |-> co, include |-> include, exclude |-> exclude, custom |-> custom]

NullConfig == Config(NoOptions, Undef, Undef, Undef)

\* File contents: a TypeScript source, generated JavaScript, a source map, a
\* configuration file that parses as JSON, one that does not.
SourceText == [kind |-> "source", cfg |-> NullConfig]

\* A TypeScript source that parses and has two type errors: a return value not
\* assignable to the declared return type, and a wrongly typed call argument.
TypeErrorText == [kind |-> "typeerror", cfg |-> NullConfig]

OutputText == [kind |-> "js", cfg |-> NullConfig]

SourceMapText == [kind |-> "map", cfg |-> NullConfig]

ConfigText(cfg) == [kind |-> "config", cfg |-> cfg]

MalformedText == [kind |-> "malformed", cfg |-> NullConfig]

\* ts.readConfigFile(path, ts.sys.readFile): {config} or {error}.
readConfigFile(fsFiles, segs) ==
    IF segs \in DOMAIN fsFiles /\ fsFiles[segs].kind = "config"
    THEN [error |-> FALSE, config |-> fsFiles[segs].cfg]
    ELSE [error |-> TRUE, config |-> NullConfig]

\* The engine's enum for an option given by name in a configuration file (the
\* names are matched without regard to case); Undef for a name it does not know.
EnumOf(k, v) ==
    CASE k = "target" /\ v \in {"ES5", "es5"} -> "ScriptTarget.ES5"
      [] k = "target" /\ v \in {"ES2020", "es2020"} -> "ScriptTarget.ES2020"
      [] k = "target" /\ v \in {"ESNext", "esnext"} -> "ScriptTarget.ESNext"
      [] k = "module" /\ v \in {"CommonJS", "commonjs"} -> "ModuleKind.CommonJS"
      [] k = "module" /\ v \in {"ESNext", "esnext"} -> "ModuleKind.ESNext"
      [] k = "moduleResolution" /\ v \in {"node", "Node"} -> "ModuleResolutionKind.NodeJs"
      [] k = "moduleResolution" /\ v \in {"classic", "Classic"} -> "ModuleResolutionKind.Classic"
      [] OTHER -> Undef

EnumKeys == {"target", "module", "moduleResolution"}

BooleanKeys ==
    {"strict", "esModuleInterop", "skipLibCheck", "forceConsistentCasingInFileNames",
     "declaration", "declarationMap", "sourceMap"}

PathKeys == {"outDir", "rootDir", "baseUrl"}

\* One option of a configuration file as the engine's parser converts it: enum
\* names to enums, paths made absolute against the file's directory, a value of
\* the wrong type dropped.
ConvertOption(k, v, basePath) ==
    IF v = Undef THEN Undef
    ELSE IF k \in EnumKeys THEN EnumOf(k, v)
    ELSE IF k \in BooleanKeys THEN (IF IsBoolean(v) THEN v ELSE Undef)
    ELSE IF k \in PathKeys THEN (IF IsString(v) THEN PathStr(basePath) \o "/" \o v ELSE Undef)
    ELSE IF IsArray(v) THEN v ELSE Undef

\* A source file of the project rooted at basePath (the default include).
IsProjectSource(segs, basePath) ==
    /\ Len(segs) > Len(basePath)
    /\ SubSeq(segs, 1, Len(basePath)) = basePath
    /\ IsTsExt(segs[Len(segs)].ext)

\* ts.parseJsonConfigFileContent(config, ts.sys, basePath): the converted options,
\* the project's file names, and one error for every option that did not convert
\* and one when the project has no input file.
parseJsonConfigFileContent(fsFiles, config, basePath) ==
    LET co == config.compilerOptions
        bad == {k \in OptKeys : co[k] # Undef /\ ConvertOption(k, co[k], basePath) = Undef}
        names == {p \in DOMAIN fsFiles : IsProjectSource(p, basePath)}
    IN [options |-> [k \in OptKeys |-> ConvertOption(k, co[k], basePath)],
        fileNames |-> names,
        errors |-> Cardinality(bad) + (IF names = {} THEN 1 ELSE 0)]

---------------------------------------------------------------------------
(* The engine's diagnostics: ts.DiagnosticCategory and utils/diagnostics.ts *)

CategoryWarning == 0

CategoryError == 1

CategorySuggestion == 2

CategoryMessage == 3

\* A category the server's version of the engine does not know.
CategoryOther == 4

\* An engine diagnostic of a category: its code, and whether it carries a file
\* and a start offset (then at 0-based line 1, character 2).
EngineDiagnostic(category) ==
    [category |-> category, code |-> 2322, located |-> TRUE, line |-> 1, character |-> 2]

\* The record the handlers build from a diagnostic, with the severity given.
Diagnostic(d, file, severity) ==
    [file |-> file,
     line |-> IF d.located THEN d.line + 1 ELSE 0,
     column |-> IF d.located THEN d.character + 1 ELSE 0,
     code |-> "TS" \o ToString(d.code),
     severity |-> severity,
     message |-> "engine message"]

\* compileSingleFile's and compileProject's own mapping of a diagnostic.
compilerDiagnostic(d, file) ==
    Diagnostic(d, file, IF d.category = CategoryError THEN "error" ELSE "warning")

\* formatDiagnostic's switch on the category.
formatDiagnostic(d) ==
    Diagnostic(d, IF d.located THEN "file" ELSE "unknown",
               CASE d.category = CategoryWarning -> "warning"
                 [] d.category \in {CategorySuggestion, CategoryMessage} -> "info"
                 [] OTHER -> "error")

\* getDiagnosticSummary without its case for Message.
getDiagnosticSummary_SkipsMessage(ds) ==
    [errorCount |-> Cardinality({i \in 1..Len(ds) : ds[i].category = CategoryError}),
     warningCount |-> Cardinality({i \in 1..Len(ds) : ds[i].category = CategoryWarning}),
     infoCount |-> Cardinality({i \in 1..Len(ds) : ds[i].category = CategorySuggestion})]

\* getDiagnosticSummary: its switch counts Error, Warning, Suggestion and Message.
getDiagnosticSummary(ds) ==
    [errorCount |-> Cardinality({i \in 1..Len(ds) : ds[i].category = CategoryError}),
     warningCount |-> Cardinality({i \in 1..Len(ds) : ds[i].category = CategoryWarning}),
     infoCount |-> Cardinality({i \in 1..Len(ds) :
                      ds[i].category \in {CategorySuggestion, CategoryMessage}})]

\* A configuration parse error as compileProject reports it.
ConfigDiagnostic(file) ==
    [file |-> file, line |-> 0, column |-> 0, code |-> "TS5023", severity |-> "error",
     message |-> "configuration error"]

\* The one diagnostic of compileFile's catch block.
SyntheticDiagnostic(file, message) ==
    [file |-> file, line |-> 0, column |-> 0, code |-> "COMPILE_ERROR",
     severity |-> "error", message |-> message]

---------------------------------------------------------------------------
(* Outcomes of a call: a returned result, or an exception (a rejected promise) *)

NoSummary == [errorCount |-> 0, warningCount |-> 0, infoCount |-> 0]

\* A returned result.  A field the result does not carry is empty: errors and
\* files <<>>, output and message "", summary NoSummary.
Outcome(kind, success, errors, outFiles, output, message, summary) ==
    [kind |-> kind, success |-> success, errors |-> errors, files |-> outFiles,
     output |-> output, message |-> message, summary |-> summary]

\* A CompilationResult
Return(success, errors, outFiles, output) ==
    Outcome("return", success, errors, outFiles, output, "", NoSummary)

\* A TypeCheckResult
CheckReturn(success, diagnostics, summary) ==
    Outcome("return", success, diagnostics, <<>>, "", "", summary)

\* A configuration manager's {success, message}
ConfigReturn(success, message) ==
    Outcome("return", success, <<>>, <<>>, "", message, NoSummary)

\* An exception leaving the handler: for an async handler a rejected promise.
Throw(message) == Outcome("throw", FALSE, <<>>, <<>>, "", message, NoSummary)

\* What a handler did: its outcome, the file system it leaves, and the options
\* it handed to the engine (NoOptions and engineCalled FALSE when it never
\* reached the engine).
Effect(out, fsFiles, fsDirs, engineOptions, engineCalled) ==
    [out |-> out, files |-> fsFiles, dirs |-> fsDirs,
     engineOptions |-> engineOptions, engineCalled |-> engineCalled]

\* The request's path as the string the handler passes on; Undef when absent.
RawStr(p) ==
    IF p = NoPath THEN Undef
    ELSE IF p.abs THEN PathStr(p.segs)
    ELSE "." \o PathStr(p.segs)

\* diagnostics.map(...) with compileSingleFile's and compileProject's mapping
compilerDiagnostics(ds, file) == [i \in 1..Len(ds) |-> compilerDiagnostic(ds[i], file)]

\* The filter that looks at the first diagnostic only.
HasError_FirstOnly(errors) == errors # <<>> /\ errors[1].severity = "error"

\* errors.filter(e => e.severity === 'error').length > 0
HasError(errors) == \E i \in 1..Len(errors) : errors[i].severity = "error"

RECURSIVE WriteAll(_, _, _, _, _)
\* compileSingleFile's loop "for (const file of files) await writeFile(...)": the
\* files before the failing write (failAt, 0 for none) are written, the loop
\* ends at the failure.  The result: <<files, dirs, whether a write failed>>.
WriteAll(fsFiles, fsDirs, outFiles, i, failAt) ==
    IF i > Len(outFiles) THEN <<fsFiles, fsDirs, FALSE>>
    ELSE IF i = failAt THEN <<fsFiles, fsDirs, TRUE>>
    ELSE WriteAll(writeFileFiles(fsFiles, Resolve(outFiles[i].path), outFiles[i].content),
                  writeFileDirs(fsDirs, Resolve(outFiles[i].path)),
                  outFiles, i + 1, failAt)

\* ts.transpileModule(sourceCode, {compilerOptions, fileName}): one file is
\* transformed on its own, with no type information.  Its diagnostics are
\* filled in only when reportDiagnostics is passed, and it is not; a source map
\* is produced when the options ask for one.
transpileModule(sourceCode, compilerOptions) ==
    [outputText |-> OutputText,
     diagnostics |-> <<>>,
     sourceMapText |-> Truthy(compilerOptions.sourceMap)]

---------------------------------------------------------------------------
(* handlers/compiler.ts *)

\* compileSingleFile's options before the ambient configuration is merged in.
compileBaseOptions(req) ==
    Options([target |-> "ScriptTarget.ES2020",
             module |-> "ModuleKind.CommonJS",
             sourceMap |-> IF Truthy(req.sourceMap) THEN req.sourceMap ELSE "false",
             outDir |-> RawStr(req.outputDir)])

\* Object.assign(compilerOptions, parsedConfig.options)
compileMergeOptions(compilerOptions, parsedOptions) == Spread(compilerOptions, parsedOptions)

\* compileSingleFile's lines 360-379: the options it hands to transpileModule.
compileSingleFileOptions(fsFiles, fsDirs, filePath, req) ==
    LET compilerOptions == compileBaseOptions(req)
        tsConfigPath == findTsConfig(fsFiles, fsDirs, Dirname(filePath))
    IN IF tsConfigPath # <<>>
       THEN LET configFile == readConfigFile(fsFiles, tsConfigPath[1]) IN
            IF ~configFile.error
            THEN compileMergeOptions(compilerOptions,
                     parseJsonConfigFileContent(fsFiles, configFile.config,
                                                Dirname(tsConfigPath[1])).options)
            ELSE compilerOptions
       ELSE compilerOptions

compileSingleFile(fsFiles, fsDirs, req, io) ==
    LET filePath == Resolve(req.filePath) IN
    IF ~fileExists(fsFiles, fsDirs, filePath)
    THEN Effect(Throw("File not found"), fsFiles, fsDirs, NoOptions, FALSE)
    ELSE IF ~io.read \/ filePath \notin DOMAIN fsFiles
    THEN Effect(Throw("read failed"), fsFiles, fsDirs, NoOptions, FALSE)
    ELSE
    LET compilerOptions == compileSingleFileOptions(fsFiles, fsDirs, filePath, req)
        result == transpileModule(fsFiles[filePath], compilerOptions)
        errors == compilerDiagnostics(result.diagnostics, PathStr(filePath))
        outputPath == getOutputPath(filePath, req.outputDir)
        outFiles == <<[path |-> outputPath, content |-> result.outputText]>>
                    \o (IF result.sourceMapText /\ Truthy(req.sourceMap)
                        THEN <<[path |-> MapPath(outputPath), content |-> SourceMapText]>>
                        ELSE <<>>)
        written == WriteAll(fsFiles, fsDirs, outFiles, 1, io.failAt)
    IN IF written[3]
       THEN Effect(Throw("write failed"), written[1], written[2], compilerOptions, TRUE)
       ELSE Effect(Return(~HasError(errors), errors, outFiles, "js"),
                   written[1], written[2], compilerOptions, TRUE)

\* compileProject's lines 473-481: the request's overrides of the parsed options.
compileProjectOptions(parsedOptions, req) ==
    LET withOutDir == IF req.outputDir # NoPath
                      THEN [parsedOptions EXCEPT !["outDir"] = PathStr(Resolve(req.outputDir))]
                      ELSE parsedOptions
    IN IF req.sourceMap # Undef
       THEN [withOutDir EXCEPT !["sourceMap"] = req.sourceMap]
       ELSE withOutDir

\* compileProject.  What program.emit() writes is the engine's own business and
\* is not part of the modelled file system.
compileProject(fsFiles, fsDirs, req, eng, io) ==
    LET projectPath == Resolve(req.projectPath)
        tsConfigPath == Join(projectPath, TsConfigName)
        configFile == readConfigFile(fsFiles, tsConfigPath)
        parsedConfig == parseJsonConfigFileContent(fsFiles, configFile.config, projectPath)
        options == compileProjectOptions(parsedConfig.options, req)
        errors == compilerDiagnostics(eng.diags, "unknown")
    IN IF ~fileExists(fsFiles, fsDirs, tsConfigPath)
       THEN Effect(Throw("tsconfig.json not found"), fsFiles, fsDirs, NoOptions, FALSE)
       ELSE IF configFile.error
       THEN Effect(Throw("Error reading tsconfig.json"), fsFiles, fsDirs, NoOptions, FALSE)
       ELSE IF parsedConfig.errors > 0
       THEN Effect(Return(FALSE,
                          [i \in 1..parsedConfig.errors |->
                              ConfigDiagnostic(PathStr(tsConfigPath))],
                          <<>>, ""),
                   fsFiles, fsDirs, NoOptions, FALSE)
       ELSE Effect(Return(~eng.emitSkipped /\ ~HasError(errors), errors, <<>>, ""),
                   fsFiles, fsDirs, options, TRUE)

\* A close that leaves the subscription open.
closeWatcher_LeavesOpen(ws, id) == ws

\* chokidar's watcher.close(): the subscription is closed; closing a closed one
\* changes nothing.
closeWatcher(ws, id) == [ws EXCEPT ![id].closed = TRUE]

\* setupWatchMode without its close of the key's old watcher.
setupWatchMode_KeepsOld(wm, ws, req) ==
    LET watchKey == Resolve(req.filePath)
        opened == Append(ws, [key |-> watchKey, closed |-> FALSE, options |-> req])
    IN <<[k \in DOMAIN wm \cup {watchKey} |-> IF k = watchKey THEN Len(opened) ELSE wm[k]],
         opened,
         Return(TRUE, <<>>, <<>>, "Watch mode started")>>

\* setupWatchMode: <<watcherMap, watchers, result>> after it.
setupWatchMode(wm, ws, req) ==
    LET filePath == Resolve(req.filePath)
        watchKey == filePath
        closed == IF watchKey \in DOMAIN wm THEN closeWatcher(ws, wm[watchKey]) ELSE ws
        watcher == [key |-> filePath, closed |-> FALSE, options |-> req]
        opened == Append(closed, watcher)
    IN <<[k \in DOMAIN wm \cup {watchKey} |-> IF k = watchKey THEN Len(opened) ELSE wm[k]],
         opened,
         Return(TRUE, <<>>, <<>>, "Watch mode started")>>

\* stopWatching whose stop-all clears the registry and closes nothing.
stopWatching_ClearsOnly(wm, ws, filePath) ==
    IF filePath # NoPath
    THEN LET watchKey == Resolve(filePath) IN
         IF watchKey \in DOMAIN wm
         THEN <<[k \in DOMAIN wm \ {watchKey} |-> wm[k]], closeWatcher(ws, wm[watchKey])>>
         ELSE <<wm, ws>>
    ELSE <<[k \in {} |-> 0], ws>>

\* stopWatching that forgets the sessions and closes no watcher.
stopWatching_DeletesOnly(wm, ws, filePath) ==
    IF filePath # NoPath
    THEN <<[k \in DOMAIN wm \ {Resolve(filePath)} |-> wm[k]], ws>>
    ELSE <<[k \in {} |-> 0], ws>>

\* stopWatching that takes every call for a stop-all.
stopWatching_StopsEvery(wm, ws, filePath) ==
    <<[k \in {} |-> 0],
      [i \in 1..Len(ws) |->
          IF \E k \in DOMAIN wm : wm[k] = i THEN [ws[i] EXCEPT !.closed = TRUE] ELSE ws[i]]>>

\* stopWatching(filePath?): <<watcherMap, watchers>> after it.
stopWatching(wm, ws, filePath) ==
    IF filePath # NoPath
    THEN LET watchKey == Resolve(filePath) IN
         IF watchKey \in DOMAIN wm
         THEN <<[k \in DOMAIN wm \ {watchKey} |-> wm[k]], closeWatcher(ws, wm[watchKey])>>
         ELSE <<wm, ws>>
    ELSE <<[k \in {} |-> 0],
           [i \in 1..Len(ws) |->
               IF \E k \in DOMAIN wm : wm[k] = i THEN [ws[i] EXCEPT !.closed = TRUE] ELSE ws[i]]>>

\* What compileFile did: a handler's effect and the watch registry it leaves.
CompilerEffect(e, wm, ws) ==
    [out |-> e.out, files |-> e.files, dirs |-> e.dirs,
     engineOptions |-> e.engineOptions, engineCalled |-> e.engineCalled,
     watcherMap |-> wm, watchers |-> ws]

\* compileFile whose watch request compiles the file once before it returns.
compileFile_CompilesOnWatch(fsFiles, fsDirs, wm, ws, req, eng, io) ==
    IF Truthy(req.watch) /\ req.filePath # NoPath
    THEN LET w == setupWatchMode(wm, ws, req) IN
         CompilerEffect(compileSingleFile(fsFiles, fsDirs, req, io), w[1], w[2])
    ELSE IF req.projectPath # NoPath
    THEN CompilerEffect(compileProject(fsFiles, fsDirs, req, eng, io), wm, ws)
    ELSE CompilerEffect(compileSingleFile(fsFiles, fsDirs, req, io), wm, ws)

\* compileFile.  The handlers' promises are returned from inside the try block
\* without await, so the catch block sees only what is thrown synchronously.
compileFile(fsFiles, fsDirs, wm, ws, req, eng, io) ==
    IF Truthy(req.watch) /\ req.filePath # NoPath
    THEN LET w == setupWatchMode(wm, ws, req) IN
         CompilerEffect(Effect(w[3], fsFiles, fsDirs, NoOptions, FALSE), w[1], w[2])
    ELSE IF req.projectPath # NoPath
    THEN CompilerEffect(compileProject(fsFiles, fsDirs, req, eng, io), wm, ws)
    ELSE IF req.filePath # NoPath
    THEN CompilerEffect(compileSingleFile(fsFiles, fsDirs, req, io), wm, ws)
    ELSE CompilerEffect(
             Effect(Return(FALSE,
                           <<SyntheticDiagnostic("unknown",
                               "Either filePath or projectPath must be provided")>>,
                           <<>>, ""),
                    fsFiles, fsDirs, NoOptions, FALSE),
             wm, ws)

---------------------------------------------------------------------------
(* handlers/typechecker.ts *)

\* checkSingleFile's options before the ambient configuration is merged in.
checkBaseOptions(req) ==
    Options([target |-> "ScriptTarget.ES2020",
             module |-> "ModuleKind.CommonJS",
             strict |-> IF Truthy(req.strict) THEN req.strict ELSE "false",
             skipLibCheck |-> Not(req.includeDeclarations)])

\* compilerOptions = { ...parsedConfig.options, ...compilerOptions }
checkMergeOptions(compilerOptions, parsedOptions) == Spread(parsedOptions, compilerOptions)

\* The options a single-file check hands to createProgram, from the handler's
\* own options and the ambient configuration (lines 35-46 and 128-139).
ambientOptions(fsFiles, fsDirs, filePath, compilerOptions) ==
    LET tsConfigPath == findTsConfig(fsFiles, fsDirs, Dirname(filePath)) IN
    IF tsConfigPath # <<>>
    THEN LET configFile == readConfigFile(fsFiles, tsConfigPath[1]) IN
         IF ~configFile.error
         THEN checkMergeOptions(compilerOptions,
                  parseJsonConfigFileContent(fsFiles, configFile.config,
                                             Dirname(tsConfigPath[1])).options)
         ELSE compilerOptions
    ELSE compilerOptions

\* The TypeCheckResult built from the program's diagnostics.
checkResult(ds) ==
    LET summary == getDiagnosticSummary(ds) IN
    CheckReturn(summary.errorCount = 0, [i \in 1..Len(ds) |-> formatDiagnostic(ds[i])],
                summary)

checkSingleFile(fsFiles, fsDirs, req, eng) ==
    LET filePath == Resolve(req.filePath)
        compilerOptions == ambientOptions(fsFiles, fsDirs, filePath, checkBaseOptions(req))
    IN Effect(checkResult(eng.diags), fsFiles, fsDirs, compilerOptions, TRUE)

\* checkProject's lines 92-100: the request's overrides of the parsed options.
checkProjectOptions(parsedOptions, req) ==
    LET withStrict == IF req.strict # Undef
                      THEN [parsedOptions EXCEPT !["strict"] = req.strict]
                      ELSE parsedOptions
    IN IF req.includeDeclarations # Undef
       THEN [withStrict EXCEPT !["skipLibCheck"] = Not(req.includeDeclarations)]
       ELSE withStrict

\* A configuration error of parsedConfig.errors: an engine diagnostic of category
\* Error with no file.
ConfigParseError ==
    [category |-> CategoryError, code |-> 5023, located |-> FALSE, line |-> 0,
     character |-> 0]

checkProject(fsFiles, fsDirs, req, eng) ==
    LET projectPath == Resolve(req.filePath)
        tsConfigPath == Join(projectPath, TsConfigName)
        configFile == readConfigFile(fsFiles, tsConfigPath)
        parsedConfig == parseJsonConfigFileContent(fsFiles, configFile.config, projectPath)
    IN IF ~fileExists(fsFiles, fsDirs, tsConfigPath)
       THEN Effect(Throw("tsconfig.json not found"), fsFiles, fsDirs, NoOptions, FALSE)
       ELSE IF configFile.error
       THEN Effect(Throw("Error reading tsconfig.json"), fsFiles, fsDirs, NoOptions, FALSE)
       ELSE IF parsedConfig.errors > 0
       THEN Effect(checkResult([i \in 1..parsedConfig.errors |-> ConfigParseError]),
                   fsFiles, fsDirs, NoOptions, FALSE)
       ELSE Effect(checkResult(eng.diags), fsFiles, fsDirs,
                   checkProjectOptions(parsedConfig.options, req), TRUE)

checkTypes(fsFiles, fsDirs, req, eng) ==
    LET filePath == Resolve(req.filePath)
        isFile == ~EndsWithSlash(filePath) /\ fileExists(fsFiles, fsDirs, filePath)
    IN IF ~fileExists(fsFiles, fsDirs, filePath)
       THEN Effect(Throw("File not found"), fsFiles, fsDirs, NoOptions, FALSE)
       ELSE IF isFile
       THEN checkSingleFile(fsFiles, fsDirs, req, eng)
       ELSE checkProject(fsFiles, fsDirs, req, eng)

\* getDiagnostics: the rendered string is modelled by the records it renders and
\* the format asked for.
getDiagnostics(fsFiles, fsDirs, req, eng) ==
    LET filePath == Resolve(req.filePath)
        compilerOptions ==
            ambientOptions(fsFiles, fsDirs, filePath,
                           Options([target |-> "ScriptTarget.ES2020",
                                    module |-> "ModuleKind.CommonJS"]))
    IN IF ~fileExists(fsFiles, fsDirs, filePath)
       THEN Effect(Throw("File not found"), fsFiles, fsDirs, NoOptions, FALSE)
       ELSE Effect(Outcome("return", TRUE,
                           [i \in 1..Len(eng.diags) |-> formatDiagnostic(eng.diags[i])],
                           <<>>,
                           IF req.formatOutput = Undef THEN "formatted" ELSE req.formatOutput,
                           "", NoSummary),
                   fsFiles, fsDirs, compilerOptions, TRUE)

---------------------------------------------------------------------------
(* handlers/config.ts *)

validTargets ==
    {"ES3", "ES5", "ES6", "ES2015", "ES2016", "ES2017", "ES2018", "ES2019", "ES2020",
     "ES2021", "ES2022", "ESNext"}

validModules ==
    {"None", "CommonJS", "AMD", "System", "UMD", "ES6", "ES2015", "ES2020", "ES2022",
     "ESNext"}

validResolutions == {"node", "classic"}

booleanOptions ==
    {"strict", "esModuleInterop", "skipLibCheck", "forceConsistentCasingInFileNames",
     "declaration", "sourceMap"}

stringOptions == {"outDir", "rootDir", "baseUrl"}

\* validateConfig's errors for a configuration object: the option keys and the
\* top-level keys it rejects.  compilerOptions is always an object here.
validationErrors(config) ==
    LET co == config.compilerOptions IN
    {k \in {"target"} : Truthy(co[k]) /\ co[k] \notin validTargets}
    \cup {k \in {"module"} : Truthy(co[k]) /\ co[k] \notin validModules}
    \cup {k \in {"moduleResolution"} : Truthy(co[k]) /\ co[k] \notin validResolutions}
    \cup {k \in booleanOptions : co[k] # Undef /\ ~IsBoolean(co[k])}
    \cup {k \in stringOptions : co[k] # Undef /\ ~IsString(co[k])}
    \cup {k \in {"include"} :
            Truthy(config.include)
            /\ (~IsArray(config.include) \/ HasNonStringItem(config.include))}
    \cup {k \in {"exclude"} :
            Truthy(config.exclude)
            /\ (~IsArray(config.exclude) \/ HasNonStringItem(config.exclude))}

\* validateConfig(config).isValid
validateConfig(config) == validationErrors(config) = {}

\* The merge that puts the update in the place of the file's compilerOptions.
mergeConfig_Replaces(config, options) == [config EXCEPT !.compilerOptions = options]

\* updateTsConfig's merge of the update into the file's configuration.
mergeConfig(config, options) ==
    [config EXCEPT !.compilerOptions = Spread(config.compilerOptions, options)]

\* What a configuration manager's call did.
ConfigEffect(out, fsFiles, fsDirs) == Effect(out, fsFiles, fsDirs, NoOptions, FALSE)

\* updateTsConfig that writes the merged configuration before it validates it.
updateTsConfig_WritesFirst(fsFiles, fsDirs, req, io) ==
    LET configPath == Resolve(req.configPath)
        configFile == readConfigFile(fsFiles, configPath)
        updatedConfig == mergeConfig(configFile.config, req.options)
    IN IF ~fileExists(fsFiles, fsDirs, configPath)
       THEN ConfigEffect(Throw("tsconfig.json not found"), fsFiles, fsDirs)
       ELSE IF configFile.error
       THEN ConfigEffect(ConfigReturn(FALSE, "Error reading tsconfig.json"), fsFiles, fsDirs)
       ELSE IF io.failAt = 1
       THEN ConfigEffect(ConfigReturn(FALSE, "write failed"), fsFiles, fsDirs)
       ELSE ConfigEffect(
                IF validateConfig(updatedConfig)
                THEN ConfigReturn(TRUE, "TypeScript configuration updated successfully")
                ELSE ConfigReturn(FALSE, "Configuration validation failed"),
                writeFileFiles(fsFiles, configPath, ConfigText(updatedConfig)),
                writeFileDirs(fsDirs, configPath))

\* updateTsConfig({configPath, options}); io.failAt = 1 makes its write fail.
updateTsConfig(fsFiles, fsDirs, req, io) ==
    LET configPath == Resolve(req.configPath)
        configFile == readConfigFile(fsFiles, configPath)
        updatedConfig == mergeConfig(configFile.config, req.options)
    IN IF ~fileExists(fsFiles, fsDirs, configPath)
       THEN ConfigEffect(Throw("tsconfig.json not found"), fsFiles, fsDirs)
       ELSE IF configFile.error
       THEN ConfigEffect(ConfigReturn(FALSE, "Error reading tsconfig.json"), fsFiles, fsDirs)
       ELSE IF ~validateConfig(updatedConfig)
       THEN ConfigEffect(ConfigReturn(FALSE, "Configuration validation failed"),
                         fsFiles, fsDirs)
       ELSE IF io.failAt = 1
       THEN ConfigEffect(ConfigReturn(FALSE, "write failed"), fsFiles, fsDirs)
       ELSE ConfigEffect(ConfigReturn(TRUE, "TypeScript configuration updated successfully"),
                         writeFileFiles(fsFiles, configPath, ConfigText(updatedConfig)),
                         writeFileDirs(fsDirs, configPath))

\* createTsConfig's defaults
defaultCompilerOptions ==
    Options([target |-> "ES2020",
             module |-> "commonjs",
             moduleResolution |-> "node",
             lib |-> "[ES2020]",
             outDir |-> "./dist",
             rootDir |-> "./src",
             strict |-> "true",
             esModuleInterop |-> "true",
             skipLibCheck |-> "true",
             forceConsistentCasingInFileNames |-> "true",
             declaration |-> "true",
             declarationMap |-> "true",
             sourceMap |-> "true"])

\* createTsConfig's defaultConfig for the options given
defaultConfig(options) ==
    Config(Spread(defaultCompilerOptions, options), "[src/**/*]", "[node_modules,dist]",
           Undef)

\* createTsConfig without its check that the file exists.
createTsConfig_Overwrites(fsFiles, fsDirs, req, io) ==
    LET configPath == Join(Resolve(req.projectPath), TsConfigName) IN
    IF io.failAt = 1
    THEN ConfigEffect(ConfigReturn(FALSE, "write failed"), fsFiles, fsDirs)
    ELSE ConfigEffect(ConfigReturn(TRUE, "TypeScript configuration created successfully"),
                      writeFileFiles(fsFiles, configPath, ConfigText(defaultConfig(req.options))),
                      writeFileDirs(fsDirs, configPath))

\* createTsConfig(projectPath, options); io.failAt = 1 makes its write fail.
createTsConfig(fsFiles, fsDirs, req, io) ==
    LET configPath == Join(Resolve(req.projectPath), TsConfigName) IN
    IF fileExists(fsFiles, fsDirs, configPath)
    THEN ConfigEffect(ConfigReturn(FALSE, "tsconfig.json already exists at this location"),
                      fsFiles, fsDirs)
    ELSE IF io.failAt = 1
    THEN ConfigEffect(ConfigReturn(FALSE, "write failed"), fsFiles, fsDirs)
    ELSE ConfigEffect(ConfigReturn(TRUE, "TypeScript configuration created successfully"),
                      writeFileFiles(fsFiles, configPath, ConfigText(defaultConfig(req.options))),
                      writeFileDirs(fsDirs, configPath))

---------------------------------------------------------------------------
(* The files, requests and engine answers the model draws from *)

\* The most watchers chokidar.watch is asked for in one run.
MaxWatchers == 3

\* The most option keys an ambient tsconfig.json sets, in the runs that vary it.
MaxCfgKeys == 1

\* The most option keys one updateConfig or createConfig request names.
MaxUpdateKeys == 1

RootDir == <<>>

ProjDir == <<Seg("proj", "")>>

OtherDir == <<Seg("other", "")>>

SourceFile == Join(ProjDir, Seg("a", ".ts"))

MissingFile == Join(ProjDir, Seg("missing", ".ts"))

ProjConfig == Join(ProjDir, TsConfigName)

RootConfig == Join(RootDir, TsConfigName)

\* The request's outputDir, relative to the working directory.
OutDirArg == RelPath(<<Seg("out", "")>>)

\* The partial option objects that set at most n keys, each key k of DOMAIN vals
\* to one of the values vals[k].
OptionObjects(vals, n) ==
    {Options(f) : f \in {g \in UNION {[K -> UNION {vals[k] : k \in DOMAIN vals}] :
                                        K \in {L \in SUBSET DOMAIN vals : Cardinality(L) <= n}} :
                          \A k \in DOMAIN g : g[k] \in vals[k]}}

\* The keys the handlers set themselves, with values a tsconfig.json gives them.
AmbientValues ==
    [target |-> {"ES5"}, module |-> {"ESNext"}, outDir |-> {"dist"},
     sourceMap |-> {"true", "false"}, strict |-> {"true", "false"},
     skipLibCheck |-> {"true", "false"}]

AmbientConfigs ==
    {Config(co, Undef, Undef, Undef) : co \in OptionObjects(AmbientValues, MaxCfgKeys)}

\* A tsconfig.json that sets strict and sourceMap.
StrictConfig == Config(Options([strict |-> "true", sourceMap |-> "true"]), Undef, Undef, Undef)

EngineAnswer(diags, emitSkipped) == [diags |-> diags, emitSkipped |-> emitSkipped]

\* The engine finds nothing and emits.
CleanAnswer == EngineAnswer(<<>>, FALSE)

\* The engine finds nothing, reports one error, or skips the emit.
EngineAnswers ==
    {CleanAnswer, EngineAnswer(<<EngineDiagnostic(CategoryError)>>, FALSE),
     EngineAnswer(<<>>, TRUE)}

IO(read, failAt) == [read |-> read, failAt |-> failAt]

\* Reads and writes succeed.
IOOk == IO(TRUE, 0)

\* The read fails, or the first or the second write does.
IOOutcomes == {IOOk, IO(FALSE, 0), IO(TRUE, 1), IO(TRUE, 2)}

CompileRequest(filePath, projectPath, outputDir, sourceMap, watch) ==
    [filePath |-> filePath, projectPath |-> projectPath, outputDir |-> outputDir,
     sourceMap |-> sourceMap, watch |-> watch]

CheckRequest(filePath, strict, includeDeclarations) ==
    [filePath |-> filePath, strict |-> strict, includeDeclarations |-> includeDeclarations]

DiagnosticRequest(filePath, formatOutput) ==
    [filePath |-> filePath, formatOutput |-> formatOutput]

---------------------------------------------------------------------------
(* The state and the operations *)

NoCall ==
    [op |-> "none", req |-> [filePath |-> NoPath],
     out |-> Outcome("none", FALSE, <<>>, <<>>, "", "", NoSummary),
     engineOptions |-> NoOptions, engineCalled |-> FALSE, eng |-> CleanAnswer]

\* The record of a call: the request, the handler's outcome, the options it
\* handed to the engine and what the program built by the engine answers.
Call(op, req, e, eng) ==
    [op |-> op, req |-> req, out |-> e.out, engineOptions |-> e.engineOptions,
     engineCalled |-> e.engineCalled, eng |-> eng]

\* The file system at the start: the source file, and the tsconfig.json files given
\* (<<>> for none, <<content>> for one).
InitFs(projConfig, rootConfig) ==
    /\ files = [p \in {SourceFile}
                      \cup (IF projConfig # <<>> THEN {ProjConfig} ELSE {})
                      \cup (IF rootConfig # <<>> THEN {RootConfig} ELSE {}) |->
                  IF p = SourceFile THEN SourceText
                  ELSE IF p = ProjConfig THEN projConfig[1] ELSE rootConfig[1]]
    /\ dirs = {RootDir, ProjDir}

\* A new TypeScriptCompiler: its watcherMap is empty.
InitCompiler ==
    /\ watcherMap = [k \in {} |-> 0]
    /\ watchers = <<>>
    /\ recompiles = <<>>
    /\ updates = <<>>
    /\ exited = FALSE
    /\ last = NoCall

\* compiler.compileFile(req), with the engine's answer and the I/O outcome
CompileFile(req, eng, io) ==
    /\ (Truthy(req.watch) /\ req.filePath # NoPath) => Len(watchers) < MaxWatchers
    /\ \E e \in {compileFile(files, dirs, watcherMap, watchers, req, eng, io)} :
       /\ files' = e.files
       /\ dirs' = e.dirs
       /\ watcherMap' = e.watcherMap
       /\ watchers' = e.watchers
       /\ last' = Call("compileFile", req, e, eng)
    /\ UNCHANGED <<recompiles, exited, updates>>

\* compiler.stopWatching(filePath), NoPath for no argument
StopWatching(filePath) ==
    /\ \E w \in {stopWatching(watcherMap, watchers, filePath)} :
       /\ watcherMap' = w[1]
       /\ watchers' = w[2]
       /\ last' = [NoCall EXCEPT !.op = "stopWatching", !.req = [filePath |-> filePath],
                                 !.out = Return(TRUE, <<>>, <<>>, "")]
    /\ UNCHANGED <<files, dirs, recompiles, exited, updates>>

\* typeChecker.checkTypes(req)
CheckTypes(req, eng) ==
    /\ \E e \in {checkTypes(files, dirs, req, eng)} :
       /\ files' = e.files
       /\ dirs' = e.dirs
       /\ last' = Call("checkTypes", req, e, eng)
    /\ UNCHANGED <<watcherMap, watchers, recompiles, exited, updates>>

\* typeChecker.getDiagnostics(req)
GetDiagnostics(req, eng) ==
    /\ \E e \in {getDiagnostics(files, dirs, req, eng)} :
       /\ files' = e.files
       /\ dirs' = e.dirs
       /\ last' = Call("getDiagnostics", req, e, eng)
    /\ UNCHANGED <<watcherMap, watchers, recompiles, exited, updates>>

\* configManager.updateTsConfig(req)
UpdateTsConfig(req, io) ==
    /\ \E e \in {updateTsConfig(files, dirs, req, io)} :
       /\ files' = e.files
       /\ dirs' = e.dirs
       /\ last' = Call("updateTsConfig", req, e, CleanAnswer)
    /\ UNCHANGED <<watcherMap, watchers, recompiles, exited, updates>>

\* configManager.createTsConfig(projectPath, options)
CreateTsConfig(req, io) ==
    /\ \E e \in {createTsConfig(files, dirs, req, io)} :
       /\ files' = e.files
       /\ dirs' = e.dirs
       /\ last' = Call("createTsConfig", req, e, CleanAnswer)
    /\ UNCHANGED <<watcherMap, watchers, recompiles, exited, updates>>

---------------------------------------------------------------------------
(* Watch sessions: watch requests, stop(key) and stop-all on one compiler *)

\* compileFile({filePath, outputDir, watch: true})
WatchRequests ==
    {CompileRequest(f, NoPath, o, Undef, "true") :
        f \in {AbsPath(SourceFile), RelPath(<<Seg("a", ".ts")>>), AbsPath(MissingFile)},
        o \in {NoPath, OutDirArg}}

\* stopWatching's arguments; NoPath is the call with no argument.
StopArguments == {AbsPath(SourceFile), RelPath(<<Dot, Seg("a", ".ts")>>), AbsPath(MissingFile), NoPath}

InitWatch == InitCompiler /\ InitFs(<<>>, <<>>)

WatchCall == \E req \in WatchRequests : CompileFile(req, CleanAnswer, IOOk)

StopCall == \E filePath \in StopArguments : StopWatching(filePath)

NextWatch == WatchCall \/ StopCall

SpecWatch == InitWatch /\ [][NextWatch]_vars

\* The live subscriptions of a key: opened and not closed.
Live(key) == {i \in 1..Len(watchers) : watchers[i].key = key /\ ~watchers[i].closed}

WatchKeys == {watchers[i].key : i \in 1..Len(watchers)}

IsWatchCall(c) == c.op = "compileFile" /\ Truthy(c.req.watch) /\ c.req.filePath # NoPath

IsStopAll(c) == c.op = "stopWatching" /\ c.req.filePath = NoPath

\* C1: after any sequence of watch requests, stop(key) and stop-all calls, every
\* key has at most one live subscription, and the key of a watch request that
\* has just returned has exactly one.
C1_OneLiveSubscriptionPerKey ==
    /\ \A key \in WatchKeys : Cardinality(Live(key)) <= 1
    /\ IsWatchCall(last) => Cardinality(Live(Resolve(last.req.filePath))) = 1

\* C1's case: a key registered three times, under two spellings of its path.
C1_Witness ==
    /\ IsWatchCall(last)
    /\ \E i, j, k \in 1..Len(watchers) :
          /\ i < j /\ j < k
          /\ watchers[i].key = watchers[j].key /\ watchers[j].key = watchers[k].key
          /\ watchers[i].options.filePath # watchers[k].options.filePath

\* The target of a call: the source file, the project's tsconfig.json.
TargetMissing(c) ==
    CASE c.op = "compileFile" /\ IsWatchCall(c) ->
             ~fileExists(files, dirs, Resolve(c.req.filePath))
      [] c.op = "compileFile" /\ ~IsWatchCall(c) /\ c.req.projectPath # NoPath ->
             ~fileExists(files, dirs, Join(Resolve(c.req.projectPath), TsConfigName))
      [] c.op = "compileFile" /\ ~IsWatchCall(c) /\ c.req.projectPath = NoPath
             /\ c.req.filePath # NoPath ->
             ~fileExists(files, dirs, Resolve(c.req.filePath))
      [] c.op \in {"checkTypes", "getDiagnostics"} ->
             ~fileExists(files, dirs, Resolve(c.req.filePath))
      [] c.op = "updateTsConfig" ->
             ~fileExists(files, dirs, Resolve(c.req.configPath))
      [] OTHER -> FALSE

\* C5: no operation whose target source file or project configuration file is
\* missing returns a success result, a watch request on a missing file included.
C5_MissingTargetNeverSucceeds ==
    TargetMissing(last) => ~(last.out.kind = "return" /\ last.out.success)

\* C7: stop-all leaves the registry empty and no subscription live, a further
\* stop-all changes nothing, and stopping a key that has no session changes
\* nothing.
C7_StopAllIdempotent ==
    /\ IsStopAll(last) =>
          /\ DOMAIN watcherMap = {}
          /\ \A i \in 1..Len(watchers) : watchers[i].closed
          /\ stopWatching(watcherMap, watchers, NoPath) = <<watcherMap, watchers>>
    /\ \A filePath \in StopArguments \ {NoPath} :
          Resolve(filePath) \notin DOMAIN watcherMap =>
              stopWatching(watcherMap, watchers, filePath) = <<watcherMap, watchers>>

\* C7's case: stop-all has run on a compiler that had two sessions registered.
C7_Witness ==
    /\ IsStopAll(last)
    /\ Cardinality(WatchKeys) >= 2

\* C26: the registry and the subscriptions stay in step after any sequence of
\* watch, stop(key) and stop-all calls: a subscription is live if and only if it
\* is the one stored in the registry under its key.
C26_LiveIffRegistered ==
    \A i \in 1..Len(watchers) :
        ~watchers[i].closed <=>
            /\ watchers[i].key \in DOMAIN watcherMap
            /\ watcherMap[watchers[i].key] = i

\* C26's case: after a replacement and a stop(key), one subscription is closed
\* by the replacement, one by the stop, and one is live and registered.
C26_Witness ==
    /\ Len(watchers) = 3
    /\ watchers[1].closed /\ watchers[2].closed /\ ~watchers[3].closed
    /\ watchers[1].key = watchers[3].key
    /\ watchers[2].key # watchers[3].key
    /\ DOMAIN watcherMap = {watchers[3].key}

---------------------------------------------------------------------------
(* Watch sessions at work: change notifications, the recompilations they start,
   stops and the termination signals *)

\* The most sessions opened in one run of the process.
MaxSessions == 2

\* The most recompilations in flight at once.
MaxRecompiles == 2

\* The request the change listener compiles with: { ...options, watch: false }
ListenerRequest(options) == [options EXCEPT !.watch = "false"]

\* What came before an event: the operation, how it ended, and its watcher.
Before(c) ==
    [op |-> c.op, kind |-> c.out.kind,
     watcher |-> IF c.op \in {"change", "recompile"} THEN c.req.watcher ELSE 0]

\* The record of a listener's event of watcher i.
ListenerEvent(op, req, i, e, before) ==
    Call(op, req @@ [watcher |-> i, before |-> before], e, CleanAnswer)

\* The listener whose options are those of the key's first watch request.
Change_StaleOptions(i) ==
    /\ ~exited
    /\ i \in 1..Len(watchers) /\ ~watchers[i].closed
    /\ Len(recompiles) < MaxRecompiles
    /\ LET first == CHOOSE j \in 1..Len(watchers) :
                        /\ watchers[j].key = watchers[i].key
                        /\ \A k \in 1..(j - 1) : watchers[k].key # watchers[i].key
           req == ListenerRequest(watchers[first].options)
       IN /\ recompiles' = Append(recompiles, [watcher |-> i, options |-> req])
          /\ last' = ListenerEvent("change", req, i,
                                   Effect(Return(TRUE, <<>>, <<>>, ""), files, dirs,
                                          NoOptions, FALSE),
                                   Before(last))
    /\ UNCHANGED <<files, dirs, watcherMap, watchers, exited, updates>>

\* The listener that compiles through compileFile with the session's own
\* options, watch: true among them: it sets the watch up again.
Change_Rewatches(i) ==
    /\ ~exited
    /\ i \in 1..Len(watchers) /\ ~watchers[i].closed
    /\ Len(recompiles) < MaxRecompiles
    /\ Len(watchers) < MaxWatchers
    /\ \E w \in {setupWatchMode(watcherMap, watchers, watchers[i].options)} :
       /\ watcherMap' = w[1]
       /\ watchers' = w[2]
       /\ last' = ListenerEvent("change", watchers[i].options, i,
                                Effect(w[3], files, dirs, NoOptions, FALSE), Before(last))
    /\ UNCHANGED <<files, dirs, recompiles, exited, updates>>

\* watcher.on('change', ...): chokidar calls the listener of an open watcher; a
\* closed watcher has no listeners.  The listener calls compileSingleFile, which
\* runs up to its first await: it throws when the file is not there (the
\* listener catches that and logs it), and is in flight otherwise.
Change(i) ==
    /\ ~exited
    /\ i \in 1..Len(watchers) /\ ~watchers[i].closed
    /\ Len(recompiles) < MaxRecompiles
    /\ LET req == ListenerRequest(watchers[i].options) IN
       IF fileExists(files, dirs, Resolve(req.filePath))
       THEN /\ recompiles' = Append(recompiles, [watcher |-> i, options |-> req])
            /\ last' = ListenerEvent("change", req, i,
                                     Effect(Return(TRUE, <<>>, <<>>, ""), files, dirs,
                                            NoOptions, FALSE),
                                     Before(last))
       ELSE /\ recompiles' = recompiles
            /\ last' = ListenerEvent("change", req, i,
                                     Effect(Throw("File not found"), files, dirs,
                                            NoOptions, FALSE),
                                     Before(last))
    /\ UNCHANGED <<files, dirs, watcherMap, watchers, exited, updates>>

\* The sequence without its k-th element.
Without(seq, k) == SubSeq(seq, 1, k - 1) \o SubSeq(seq, k + 1, Len(seq))

\* The listener without its try/catch: a rejected compileSingleFile is an
\* unhandled rejection, which ends the process.
RecompileDone_NoCatch(k, io) ==
    /\ ~exited
    /\ k \in 1..Len(recompiles)
    /\ \E e \in {compileSingleFile(files, dirs, recompiles[k].options, io)} :
       /\ files' = e.files
       /\ dirs' = e.dirs
       /\ exited' = (e.out.kind = "throw")
       /\ last' = ListenerEvent("recompile", recompiles[k].options, recompiles[k].watcher,
                                e, Before(last))
    /\ recompiles' = Without(recompiles, k)
    /\ UNCHANGED <<watcherMap, watchers, updates>>

\* The rest of a recompilation in flight: the read, the transform, the writes,
\* and the listener's log of the result or of the exception it catches.  A file
\* deleted since the change makes the read fail.
RecompileDone(k, io) ==
    /\ ~exited
    /\ k \in 1..Len(recompiles)
    /\ \E e \in {compileSingleFile(files, dirs, recompiles[k].options, io)} :
       /\ files' = e.files
       /\ dirs' = e.dirs
       /\ last' = ListenerEvent("recompile", recompiles[k].options, recompiles[k].watcher,
                                e, Before(last))
    /\ recompiles' = Without(recompiles, k)
    /\ UNCHANGED <<watcherMap, watchers, exited, updates>>

\* The watched source file is deleted.
Unlink ==
    /\ ~exited
    /\ SourceFile \in DOMAIN files
    /\ files' = [p \in DOMAIN files \ {SourceFile} |-> files[p]]
    /\ last' = [NoCall EXCEPT !.op = "unlink"]
    /\ UNCHANGED <<dirs, watcherMap, watchers, recompiles, exited, updates>>

\* The subscriptions open now.
Open == {i \in 1..Len(watchers) : ~watchers[i].closed}

\* A signal handler that exits at once.
Signal_ExitsOnly(sig) ==
    /\ ~exited
    /\ exited' = TRUE
    /\ recompiles' = <<>>
    /\ updates' = <<>>
    /\ last' = [NoCall EXCEPT !.op = "signal",
                              !.req = [filePath |-> NoPath, signal |-> sig, open |-> Open]]
    /\ UNCHANGED <<files, dirs, watcherMap, watchers>>

\* process.on('SIGINT' / 'SIGTERM'): compiler.stopWatching(), then
\* process.exit(0), which ends whatever is in flight.
Signal(sig) ==
    /\ ~exited
    /\ \E w \in {stopWatching(watcherMap, watchers, NoPath)} :
       /\ watcherMap' = w[1]
       /\ watchers' = w[2]
    /\ exited' = TRUE
    /\ recompiles' = <<>>
    /\ updates' = <<>>
    /\ last' = [NoCall EXCEPT !.op = "signal",
                              !.req = [filePath |-> NoPath, signal |-> sig, open |-> Open]]
    /\ UNCHANGED <<files, dirs>>

\* Watch requests for the source file with two sets of options, and for a file
\* that is not there.
SessionRequests ==
    {CompileRequest(AbsPath(SourceFile), NoPath, NoPath, Undef, "true"),
     CompileRequest(AbsPath(SourceFile), NoPath, OutDirArg, "true", "true"),
     CompileRequest(AbsPath(MissingFile), NoPath, NoPath, Undef, "true")}

SessionStops == {AbsPath(SourceFile), AbsPath(MissingFile), NoPath}

\* The recompilation's reads and writes succeed, or its first write fails.
SessionIOOutcomes == {IOOk, IO(TRUE, 1)}

InitSession == InitCompiler /\ InitFs(<<>>, <<>>)

SessionWatchCall ==
    /\ ~exited
    /\ Len(watchers) < MaxSessions
    /\ \E req \in SessionRequests : CompileFile(req, CleanAnswer, IOOk)

SessionStopCall == ~exited /\ \E filePath \in SessionStops : StopWatching(filePath)

ChangeEvent == \E i \in 1..Len(watchers) : Change(i)

RecompileEnd == \E k \in 1..Len(recompiles), io \in SessionIOOutcomes : RecompileDone(k, io)

SignalEvent == \E sig \in {"SIGINT", "SIGTERM"} : Signal(sig)

NextSession ==
    SessionWatchCall \/ SessionStopCall \/ ChangeEvent \/ RecompileEnd \/ Unlink \/ SignalEvent

SpecSession == InitSession /\ [][NextSession]_vars

\* C16: a compileFile call with watch:true and a filePath registers the session
\* and returns the acknowledgement at once: the step runs no compilation (the
\* engine is not called, no recompilation is started), writes no file, and its
\* result is a success that carries no files and no diagnostics.
C16_WatchReturnsAtOnce ==
    [][IsWatchCall(last') =>
          /\ files' = files /\ dirs' = dirs
          /\ recompiles' = recompiles
          /\ ~last'.engineCalled
          /\ last'.out.kind = "return" /\ last'.out.success
          /\ last'.out.files = <<>> /\ last'.out.errors = <<>>
          /\ Resolve(last'.req.filePath) \in DOMAIN watcherMap'
          /\ ~watchers'[watcherMap'[Resolve(last'.req.filePath)]].closed]_vars

\* C16's case: the watch request for the source file, with an output directory
\* and a source map asked for, has returned, and no output file is in storage.
C16_Witness ==
    /\ IsWatchCall(last)
    /\ last.req.outputDir = OutDirArg
    /\ SourceFile \in DOMAIN files
    /\ DOMAIN files = {SourceFile}
    /\ recompiles = <<>>

\* C17: when the process has exited on a termination signal, no subscription is
\* open: every session open when the signal came has been closed.
C17_SignalClosesSessions ==
    exited => /\ \A i \in 1..Len(watchers) : watchers[i].closed
              /\ DOMAIN watcherMap = {}

\* C17's case: the signal came while two sessions were open.
C17_Witness ==
    /\ exited
    /\ last.op = "signal"
    /\ Cardinality(last.req.open) >= 2

\* The event is a recompilation that failed: it returned success=false, or it
\* raised an exception, at its start or later.
FailedRecompile(c) ==
    /\ c.op \in {"change", "recompile"}
    /\ c.out.kind = "throw" \/ ~c.out.success

\* C18: a watch-triggered recompilation that fails leaves the registry and the
\* subscriptions as they were and the process running, so that the session's
\* listener is still there for the next change notification.
C18_FailedRecompileKeepsSession ==
    [][FailedRecompile(last') =>
          /\ watcherMap' = watcherMap
          /\ watchers' = watchers
          /\ ~exited']_vars

\* C18's case: a change notification has started a recompilation for a session
\* right after a recompilation of the same session ended in an exception.
C18_Witness ==
    /\ last.op = "change"
    /\ last.out.kind = "return"
    /\ last.req.before.op = "recompile"
    /\ last.req.before.kind = "throw"
    /\ last.req.before.watcher = last.req.watcher
    /\ recompiles # <<>>

\* The options of the most recent watch request for a key.
LatestOptions(key) ==
    LET js == {j \in 1..Len(watchers) : watchers[j].key = key}
        latest == CHOOSE j \in js : \A k \in js : k <= j
    IN watchers[latest].options

\* C19: every recompilation that a change notification starts for a key runs
\* with the outputDir and sourceMap of the most recent watch request for that
\* key, never with those of a request it replaced.
C19_RecompileUsesLatestOptions ==
    last.op = "change" =>
        /\ last.req.outputDir = LatestOptions(Resolve(last.req.filePath)).outputDir
        /\ last.req.sourceMap = LatestOptions(Resolve(last.req.filePath)).sourceMap

\* C19's case: a change notification came after a watch request had replaced
\* the key's session by one with other options.
C19_Witness ==
    /\ last.op = "change"
    /\ \E j \in 1..Len(watchers) :
          /\ j < last.req.watcher
          /\ watchers[j].key = watchers[last.req.watcher].key
          /\ watchers[j].options.outputDir # last.req.outputDir

\* C20: a change notification starts a recompilation only for a key that is
\* registered, and by the session registered for it: after stop(key) or
\* stop-all none starts for the key until a watch request registers it again.
\* A stop cancels nothing: the recompilations in flight stay in flight.
C20_StopSuppressesLaterChanges ==
    [][/\ last'.op = "change" =>
             /\ Resolve(last'.req.filePath) \in DOMAIN watcherMap
             /\ watcherMap[Resolve(last'.req.filePath)] = last'.req.watcher
       /\ last'.op = "stopWatching" => recompiles' = recompiles]_vars

\* C20's case: a recompilation that was in flight when its session was stopped
\* has run to its end and written its output.
C20_Witness ==
    /\ last.op = "recompile"
    /\ last.out.kind = "return"
    /\ watchers[last.req.watcher].closed
    /\ Resolve(last.req.filePath) \notin DOMAIN watcherMap
    /\ last.req.before.op = "stopWatching"

\* The resolved target of a recompilation in flight.
TargetOf(r) == Resolve(r.options.filePath)

\* C21: at most one compilation of a resolved target file is in flight at any
\* time: two recompilations started by successive change notifications never
\* overlap between their read of the source and their write of the output.
C21_OneCompilationInFlight ==
    \A j, k \in 1..Len(recompiles) :
        j # k => TargetOf(recompiles[j]) # TargetOf(recompiles[k])

\* The step is a stop(key) call.
IsStopKey(c) == c.op = "stopWatching" /\ c.req.filePath # NoPath

\* C22: a stop(key) call closes the key's subscription and removes its registry
\* entry, and leaves the session of every other key registered, live and with
\* the options it had.
C22_StopKeyLeavesOthers ==
    [][IsStopKey(last') =>
          LET key == Resolve(last'.req.filePath) IN
          /\ key \notin DOMAIN watcherMap'
          /\ key \in DOMAIN watcherMap => watchers'[watcherMap[key]].closed
          /\ DOMAIN watcherMap' = DOMAIN watcherMap \ {key}
          /\ \A k \in DOMAIN watcherMap \ {key} :
                /\ watcherMap'[k] = watcherMap[k]
                /\ watchers'[watcherMap[k]] = watchers[watcherMap[k]]
                /\ ~watchers'[watcherMap'[k]].closed]_vars

\* C22's case: stop(key) has closed the session opened last, and the session of
\* another key, opened before it, is registered and live.
C22_Witness ==
    /\ IsStopKey(last)
    /\ watchers # <<>>
    /\ watchers[Len(watchers)].key = Resolve(last.req.filePath)
    /\ watchers[Len(watchers)].closed
    /\ \E k \in DOMAIN watcherMap :
          /\ k # Resolve(last.req.filePath)
          /\ ~watchers[watcherMap[k]].closed

\* C23: a change notification and the recompilation it starts never alter the
\* session registry: the recompilation runs with watch false, opens no
\* subscription, replaces no session and removes none.
C23_ChangeKeepsRegistry ==
    [][last'.op \in {"change", "recompile"} =>
          /\ last'.req.watch = "false"
          /\ watcherMap' = watcherMap
          /\ watchers' = watchers]_vars

\* C23's case: a second recompilation of a session has run to its end, right
\* after another one, and the session is still the one registered for its key.
C23_Witness ==
    /\ last.op = "recompile"
    /\ last.out.kind = "return" /\ last.out.success
    /\ last.req.before.op = "recompile"
    /\ last.req.before.watcher = last.req.watcher
    /\ Resolve(last.req.filePath) \in DOMAIN watcherMap
    /\ watcherMap[Resolve(last.req.filePath)] = last.req.watcher
    /\ ~watchers[last.req.watcher].closed

---------------------------------------------------------------------------
(* Compile and check calls over a file system whose tsconfig.json files are
   missing, malformed or well formed *)

\* compileFile requests of every shape but watch.
CompileRequests ==
    {CompileRequest(f, pr, NoPath, sm, Undef) :
        f \in {NoPath, AbsPath(SourceFile), AbsPath(MissingFile)},
        pr \in {NoPath, AbsPath(ProjDir)},
        sm \in {Undef, "true"}}

\* checkTypes on the source file, a missing file, the project directory, the root.
CheckRequests ==
    {CheckRequest(f, st, Undef) :
        f \in {AbsPath(SourceFile), AbsPath(MissingFile), AbsPath(ProjDir), AbsPath(RootDir)},
        st \in {Undef, "true"}}

DiagnosticRequests ==
    {DiagnosticRequest(f, "text") : f \in {AbsPath(SourceFile), AbsPath(MissingFile)}}

Init ==
    /\ InitCompiler
    /\ \E projConfig \in {<<>>, <<MalformedText>>, <<ConfigText(StrictConfig)>>},
          rootConfig \in {<<>>, <<MalformedText>>, <<ConfigText(StrictConfig)>>} :
          InitFs(projConfig, rootConfig)

CompileCall ==
    \E req \in CompileRequests, eng \in EngineAnswers, io \in IOOutcomes :
        CompileFile(req, eng, io)

CheckCall == \E req \in CheckRequests, eng \in EngineAnswers : CheckTypes(req, eng)

DiagnosticsCall ==
    \E req \in DiagnosticRequests, eng \in EngineAnswers : GetDiagnostics(req, eng)

Next == CompileCall \/ CheckCall \/ DiagnosticsCall

Spec == Init /\ [][Next]_vars

IsSingleFileCompile(c) ==
    /\ c.op = "compileFile" /\ ~IsWatchCall(c)
    /\ c.req.projectPath = NoPath /\ c.req.filePath # NoPath

IsProjectCompile(c) ==
    c.op = "compileFile" /\ ~IsWatchCall(c) /\ c.req.projectPath # NoPath

\* C4: every failure raised inside a compileFile call comes back as a result with
\* success=false and one synthetic error diagnostic; compileFile never ends in an
\* escaped exception or a rejected promise.
C4_CompileFileNeverRejects == last.op = "compileFile" => last.out.kind = "return"

\* The configuration file a call uses: the ambient tsconfig.json of a single
\* file, <projectPath>/tsconfig.json of a project.  <<path>>, or <<>> for none.
ConfigUsed(c) ==
    IF IsProjectCompile(c)
    THEN <<Join(Resolve(c.req.projectPath), TsConfigName)>>
    ELSE findTsConfig(files, dirs, Dirname(Resolve(c.req.filePath)))

\* The call came as far as reading its configuration file.
ReadsConfig(c) ==
    \/ IsProjectCompile(c)
    \/ /\ IsSingleFileCompile(c) \/ c.op \in {"checkTypes", "getDiagnostics"}
       /\ c.out.message \notin {"File not found", "read failed"}

\* C6: whenever the configuration file a compile or check call uses is malformed,
\* the call returns a result whose diagnostics hold a configuration error of
\* severity error: it is neither thrown nor dropped.
C6_MalformedConfigIsReported ==
    (/\ ReadsConfig(last)
     /\ ConfigUsed(last) # <<>>
     /\ ConfigUsed(last)[1] \in DOMAIN files
     /\ files[ConfigUsed(last)[1]].kind = "malformed")
    => /\ last.out.kind = "return"
       /\ \E i \in 1..Len(last.out.errors) :
             /\ last.out.errors[i].severity = "error"
             /\ last.out.errors[i].code = "TS5023"

\* The path of a checkTypes call, resolved.
CheckTarget(c) == Resolve(c.req.filePath)

\* C11: checkTypes on an existing regular file checks it alone, with the
\* single-file options; checkTypes on any other existing path, a directory,
\* runs in project mode: it fails fatally when the directory holds no
\* tsconfig.json, and hands the engine the project's parsed options otherwise.
C11_CheckTypesDispatch ==
    (last.op = "checkTypes" /\ fileExists(files, dirs, CheckTarget(last))) =>
        IF CheckTarget(last) \in DOMAIN files
        THEN /\ last.engineCalled
             /\ last.engineOptions =
                    ambientOptions(files, dirs, CheckTarget(last), checkBaseOptions(last.req))
        ELSE IF Join(CheckTarget(last), TsConfigName) \notin DOMAIN files
        THEN /\ last.out.kind = "throw"
             /\ last.out.message = "tsconfig.json not found"
        ELSE last.engineCalled =>
                 last.engineOptions =
                     checkProjectOptions(
                         parseJsonConfigFileContent(
                             files,
                             readConfigFile(files, Join(CheckTarget(last), TsConfigName)).config,
                             CheckTarget(last)).options,
                         last.req)

\* The call discovers its configuration from the directory of its file.
DiscoversConfig(c) ==
    /\ IsSingleFileCompile(c) \/ c.op \in {"checkTypes", "getDiagnostics"}
    /\ Resolve(c.req.filePath) \in DOMAIN files
    /\ ReadsConfig(c)

\* The directories that hold a tsconfig.json among a directory and its
\* ancestors, the root included.
ConfigHolders(startDir) ==
    {d \in Ancestors(startDir) : fileExists(files, dirs, Join(d, TsConfigName))}

\* C25: configuration discovery from a start directory returns the
\* tsconfig.json of the nearest directory that holds one among the start
\* directory and all its ancestors, the file system's root included, and
\* returns none only when none of them holds one.
C25_DiscoveryFindsNearest ==
    DiscoversConfig(last) =>
        LET startDir == Dirname(Resolve(last.req.filePath))
            holders == ConfigHolders(startDir)
            nearest == CHOOSE d \in holders : \A e \in holders : Len(e) <= Len(d)
        IN IF holders = {}
           THEN ConfigUsed(last) = <<>>
           ELSE ConfigUsed(last) = <<Join(nearest, TsConfigName)>>

---------------------------------------------------------------------------
(* Diagnostics: the handlers over every sequence of engine diagnostics *)

\* The longest sequence of diagnostics the engine answers with.
MaxDiags == 2

\* ts.DiagnosticCategory
Categories == {CategoryWarning, CategoryError, CategorySuggestion, CategoryMessage}

DiagnosticSeqs ==
    UNION {[1..n -> {EngineDiagnostic(c) : c \in Categories}] : n \in 0..MaxDiags}

DiagnosticAnswers == {EngineAnswer(ds, FALSE) : ds \in DiagnosticSeqs}

\* The same answers of a program whose emit was skipped.
SkippedAnswers == {EngineAnswer(ds, TRUE) : ds \in DiagnosticSeqs}

\* A project compile of /proj, and a compile of the source file alone.
DiagnosticCompileRequests ==
    {CompileRequest(NoPath, AbsPath(ProjDir), NoPath, Undef, Undef),
     CompileRequest(AbsPath(SourceFile), NoPath, NoPath, Undef, Undef)}

\* checkTypes of the source file alone, and of the project at the root.
DiagnosticCheckRequests ==
    {CheckRequest(AbsPath(SourceFile), Undef, Undef), CheckRequest(AbsPath(RootDir), Undef, Undef)}

InitDiagnostics ==
    /\ InitCompiler
    /\ InitFs(<<ConfigText(StrictConfig)>>, <<ConfigText(StrictConfig)>>)

DiagnosticCompileCall ==
    \E req \in DiagnosticCompileRequests, eng \in DiagnosticAnswers \cup SkippedAnswers :
        CompileFile(req, eng, IOOk)

DiagnosticCheckCall ==
    \E req \in DiagnosticCheckRequests, eng \in DiagnosticAnswers : CheckTypes(req, eng)

DiagnosticGetCall ==
    \E eng \in DiagnosticAnswers :
        GetDiagnostics(DiagnosticRequest(AbsPath(SourceFile), "json"), eng)

NextDiagnostics == DiagnosticCompileCall \/ DiagnosticCheckCall \/ DiagnosticGetCall

SpecDiagnostics == InitDiagnostics /\ [][NextDiagnostics]_vars

\* The one mapping from the engine's category to a severity.
FixedSeverity(category) ==
    CASE category = CategoryError -> "error"
      [] category = CategoryWarning -> "warning"
      [] category \in {CategorySuggestion, CategoryMessage} -> "info"
      [] OTHER -> "error"

\* The diagnostics the engine gave the handler of a call: a single-file compile
\* gets those of the transform, the other calls those of the program.
EngineDiagnosticsOf(c) ==
    IF IsSingleFileCompile(c)
    THEN transpileModule(SourceText, c.engineOptions).diagnostics
    ELSE c.eng.diags

\* C12: in every result built from the engine's diagnostics (single-file
\* compile, project compile, checkTypes, getDiagnostics) the i-th diagnostic has
\* the severity the one fixed mapping gives the category of the engine's i-th
\* diagnostic: Error to error, Warning to warning, Suggestion and Message to info.
C12_OneSeverityMapping ==
    (/\ last.op \in {"compileFile", "checkTypes", "getDiagnostics"}
     /\ last.engineCalled
     /\ last.out.kind = "return")
    => /\ Len(last.out.errors) = Len(EngineDiagnosticsOf(last))
       /\ \A i \in 1..Len(last.out.errors) :
              last.out.errors[i].severity = FixedSeverity(EngineDiagnosticsOf(last)[i].category)

\* The number of diagnostics of a result with a severity.
CountSeverity(out, severity) ==
    Cardinality({i \in 1..Len(out.errors) : out.errors[i].severity = severity})

\* C13: the summary of a TypeCheckResult counts the diagnostics of the same
\* result by severity: errorCount, warningCount and infoCount are the numbers of
\* its diagnostics of severity error, warning and info, and sum to their number.
C13_SummaryCountsSeverities ==
    (last.op = "checkTypes" /\ last.out.kind = "return") =>
        /\ last.out.summary.errorCount = CountSeverity(last.out, "error")
        /\ last.out.summary.warningCount = CountSeverity(last.out, "warning")
        /\ last.out.summary.infoCount = CountSeverity(last.out, "info")
        /\ last.out.summary.errorCount + last.out.summary.warningCount
              + last.out.summary.infoCount = Len(last.out.errors)

\* C13's case: a check returned two diagnostics of different severities, one
\* of them info.
C13_Witness ==
    /\ last.op = "checkTypes" /\ last.out.kind = "return"
    /\ Len(last.out.errors) = 2
    /\ last.out.errors[1].severity = "info"
    /\ last.out.errors[2].severity # "info"
    /\ last.out.summary.infoCount = 1

\* The emit of the call was skipped: only a project compile emits through the
\* program (emitResult.emitSkipped).
EmitSkipped(c) == IsProjectCompile(c) /\ c.engineCalled /\ c.eng.emitSkipped

\* C24: in every result returned by compileFile or checkTypes, success is true
\* if and only if no diagnostic of the result has severity error and, for a
\* project compile, the emit was not skipped.
C24_SuccessIffNoError ==
    (last.op \in {"compileFile", "checkTypes"} /\ last.out.kind = "return") =>
        (last.out.success <=>
            (CountSeverity(last.out, "error") = 0 /\ ~EmitSkipped(last)))

\* C24's case: a project compile whose emit was skipped returned two
\* diagnostics, none of severity error, and success false.
C24_Witness ==
    /\ IsProjectCompile(last) /\ last.out.kind = "return"
    /\ last.eng.emitSkipped
    /\ Len(last.out.errors) = 2
    /\ CountSeverity(last.out, "error") = 0
    /\ ~last.out.success

---------------------------------------------------------------------------
(* The fixtures: a source file that is clean and one that has type errors *)

\* tests/fixtures/with-errors.ts
TypeErrorFile == Join(ProjDir, Seg("with-errors", ".ts"))

\* ts.getPreEmitDiagnostics(program) of a program built over one source: the
\* type checker reports the two errors of the source that has them, TS2322 for
\* the return value and TS2345 for the call argument.
getPreEmitDiagnostics(sourceCode) ==
    IF sourceCode.kind = "typeerror"
    THEN <<EngineDiagnostic(CategoryError),
           [EngineDiagnostic(CategoryError) EXCEPT !.code = 2345, !.line = 4]>>
    ELSE <<>>

FixtureFiles == {SourceFile, TypeErrorFile}

\* A source whose extension is neither .ts nor .tsx: a JavaScript file, which
\* the transform takes as it takes any source text.
ScriptFile == Join(ProjDir, Seg("legacy", ".js"))

FixtureCompileRequests ==
    {CompileRequest(AbsPath(f), NoPath, o, sm, Undef) :
        f \in FixtureFiles, o \in {NoPath, OutDirArg}, sm \in {Undef, "true"}}
    \cup {CompileRequest(AbsPath(ScriptFile), NoPath, o, Undef, Undef) : o \in {NoPath, OutDirArg}}

FixtureCheckRequests ==
    {CheckRequest(AbsPath(f), st, Undef) : f \in FixtureFiles, st \in {Undef, "true"}}

InitFixtures ==
    /\ InitCompiler
    /\ files = [p \in FixtureFiles \cup {ScriptFile} |->
                  IF p = TypeErrorFile THEN TypeErrorText ELSE SourceText]
    /\ dirs = {RootDir, ProjDir}

\* A single-file compile: the engine is the transform of compileSingleFile.
FixtureCompileCall ==
    \E req \in FixtureCompileRequests, io \in IOOutcomes : CompileFile(req, CleanAnswer, io)

\* A single-file check: the engine's answer is the type checker's for the file.
FixtureCheckCall ==
    \E req \in FixtureCheckRequests :
        CheckTypes(req, EngineAnswer(getPreEmitDiagnostics(files[Resolve(req.filePath)]), FALSE))

NextFixtures == FixtureCompileCall \/ FixtureCheckCall

SpecFixtures == InitFixtures /\ [][NextFixtures]_vars

\* C15: a single-file compile of the source that parses and has type errors
\* returns success=false and a non-empty list of errors, each of severity error
\* with an engine code (TS and a number, not the synthetic COMPILE_ERROR).
C15_TypeErrorsFailCompile ==
    (/\ IsSingleFileCompile(last)
     /\ Resolve(last.req.filePath) = TypeErrorFile
     /\ last.out.kind = "return")
    => /\ ~last.out.success
       /\ last.out.errors # <<>>
       /\ \A i \in 1..Len(last.out.errors) :
              /\ last.out.errors[i].severity = "error"
              /\ last.out.errors[i].code \in {"TS2322", "TS2345"}

\* C29: a single-file compile never writes over its own source: no path among
\* the generated files of its result is the resolved path of the source, with
\* or without an outputDir, whatever the extension of the source.
C29_NeverWritesOverSource ==
    (IsSingleFileCompile(last) /\ last.out.kind = "return") =>
        \A i \in 1..Len(last.out.files) :
            Resolve(last.out.files[i].path) # Resolve(last.req.filePath)

---------------------------------------------------------------------------
(* Option precedence: the single-file handlers over ambient configurations *)

OptionCompileRequests ==
    {CompileRequest(AbsPath(SourceFile), NoPath, o, sm, Undef) :
        o \in {NoPath, OutDirArg}, sm \in {Undef, "true", "false"}}

OptionCheckRequests ==
    {CheckRequest(AbsPath(SourceFile), st, incl) :
        st \in {Undef, "true", "false"}, incl \in {Undef, "true", "false"}}

InitOptions ==
    /\ InitCompiler
    /\ \E projConfig \in {<<>>} \cup {<<ConfigText(cfg)>> : cfg \in AmbientConfigs} :
          InitFs(projConfig, <<>>)

OptionCompileCall == \E req \in OptionCompileRequests : CompileFile(req, CleanAnswer, IOOk)

OptionCheckCall == \E req \in OptionCheckRequests : CheckTypes(req, CleanAnswer)

OptionDiagnosticsCall ==
    GetDiagnostics(DiagnosticRequest(AbsPath(SourceFile), Undef), CleanAnswer)

NextOptions == OptionCompileCall \/ OptionCheckCall \/ OptionDiagnosticsCall

SpecOptions == InitOptions /\ [][NextOptions]_vars

\* The options of the ambient tsconfig.json of a call's file, as the engine
\* parses them; NoOptions when there is none or it is malformed.
AmbientOptionsOf(c) ==
    LET found == findTsConfig(files, dirs, Dirname(Resolve(c.req.filePath))) IN
    IF found # <<>> /\ ~readConfigFile(files, found[1]).error
    THEN parseJsonConfigFileContent(files, readConfigFile(files, found[1]).config,
                                    Dirname(found[1])).options
    ELSE NoOptions

\* The option values a request supplies explicitly, by option key.
Supplied(c) ==
    IF c.op = "compileFile"
    THEN Options([sourceMap |-> c.req.sourceMap, outDir |-> RawStr(c.req.outputDir)])
    ELSE IF c.op = "checkTypes"
    THEN Options([strict |-> c.req.strict,
                  skipLibCheck |-> IF c.req.includeDeclarations = Undef THEN Undef
                                   ELSE Not(c.req.includeDeclarations)])
    ELSE NoOptions

\* The built-in defaults of a handler, by option key.
BuiltIn(c) ==
    IF c.op = "compileFile"
    THEN Options([target |-> "ScriptTarget.ES2020", module |-> "ModuleKind.CommonJS",
                  sourceMap |-> "false"])
    ELSE IF c.op = "checkTypes"
    THEN Options([target |-> "ScriptTarget.ES2020", module |-> "ModuleKind.CommonJS",
                  strict |-> "false", skipLibCheck |-> "true"])
    ELSE Options([target |-> "ScriptTarget.ES2020", module |-> "ModuleKind.CommonJS"])

IsSingleFileCall(c) ==
    /\ IsSingleFileCompile(c) \/ c.op \in {"checkTypes", "getDiagnostics"}
    /\ c.engineCalled

\* C2: in the single-file compile path and the type-check paths alike, a value
\* the request supplies explicitly is the value the engine is handed whenever the
\* ambient tsconfig sets the same key to a different value.
C2_RequestOverridesConfig ==
    IsSingleFileCall(last) =>
        \A k \in OptKeys :
            (/\ Supplied(last)[k] # Undef
             /\ AmbientOptionsOf(last)[k] # Undef
             /\ AmbientOptionsOf(last)[k] # Supplied(last)[k])
            => last.engineOptions[k] = Supplied(last)[k]

C14_GeneratedFiles ==
    (IsSingleFileCompile(last) /\ last.out.kind = "return" /\ last.out.success) =>
        /\ Len(last.out.files) = IF Truthy(last.req.sourceMap) THEN 2 ELSE 1
        /\ last.out.files[1].path.segs[Len(last.out.files[1].path.segs)].ext = ".js"
        /\ Len(last.out.files) = 2 =>
               last.out.files[2].path = MapPath(last.out.files[1].path)
        /\ \A i \in 1..Len(last.out.files) :
               /\ Resolve(last.out.files[i].path) \in DOMAIN files
               /\ files[Resolve(last.out.files[i].path)] = last.out.files[i].content

---------------------------------------------------------------------------
(* The configuration manager: updateConfig and createConfig on two directories *)

OtherConfig == Join(OtherDir, TsConfigName)

\* A hand-written tsconfig.json the validator accepts, with a key the server
\* does not know.
ValidConfig ==
    Config(Options([target |-> "ES2020", module |-> "CommonJS", strict |-> "true"]),
           "[src/**/*]", Undef, "kept")

\* A hand-written tsconfig.json the engine accepts and the validator does not:
\* the module name in lower case.
LowerCaseConfig == Config(Options([module |-> "commonjs"]), Undef, Undef, Undef)

\* Option values of a request: one the validator accepts and one it rejects for
\* target and strict, a number for outDir.
UpdateValues ==
    [target |-> {"ES5", "ES1999"}, strict |-> {"false", "yes"}, outDir |-> {"#1"}]

UpdateOptions == OptionObjects(UpdateValues, MaxUpdateKeys)

UpdateRequests ==
    {[configPath |-> AbsPath(c), options |-> o] :
        c \in {ProjConfig, OtherConfig}, o \in UpdateOptions}

CreateRequests ==
    {[projectPath |-> AbsPath(d), options |-> o] :
        d \in {ProjDir, OtherDir}, o \in UpdateOptions}

\* Writes succeed or the write fails.
ConfigIOOutcomes == {IOOk, IO(TRUE, 1)}

InitConfig ==
    /\ InitCompiler
    /\ \E projConfig \in {<<MalformedText>>, <<ConfigText(ValidConfig)>>,
                          <<ConfigText(LowerCaseConfig)>>} :
          InitFs(projConfig, <<>>)

UpdateCall == \E req \in UpdateRequests, io \in ConfigIOOutcomes : UpdateTsConfig(req, io)

CreateCall == \E req \in CreateRequests, io \in ConfigIOOutcomes : CreateTsConfig(req, io)

NextConfig == UpdateCall \/ CreateCall

SpecConfig == InitConfig /\ [][NextConfig]_vars

\* The update of a call merged into the configuration the file holds now.
MergedNow(c) ==
    mergeConfig(readConfigFile(files, Resolve(c.req.configPath)).config, c.req.options)

\* The step is an updateConfig call on a readable file whose merged
\* configuration fails validation.
InvalidUpdateStep ==
    /\ last'.op = "updateTsConfig"
    /\ ~readConfigFile(files, Resolve(last'.req.configPath)).error
    /\ validationErrors(MergedNow(last')) # {}

\* C8: updateConfig is all-or-nothing: when the merged configuration fails
\* validation, the call returns success=false and the file's content after the
\* call is its content before it.
C8_UpdateAllOrNothing ==
    [][InvalidUpdateStep => (~last'.out.success /\ files' = files)]_vars

\* C8's case: an update with an invalid target was refused on a file that was
\* valid before.
C8_Witness ==
    /\ last.op = "updateTsConfig"
    /\ last.req.options["target"] = "ES1999"
    /\ last.out.message = "Configuration validation failed"
    /\ ProjConfig \in DOMAIN files /\ files[ProjConfig].kind = "config"
    /\ validateConfig(files[ProjConfig].cfg)

\* The options of a request are ones the validator rejects.
RejectedOptions(options) == validationErrors(Config(options, Undef, Undef, Undef)) # {}

\* C9: no configuration write puts on disk a configuration that fails
\* validation: createConfig with option values the validator rejects writes no
\* file and returns failure.
C9_CreateValidates ==
    [][(last'.op = "createTsConfig" /\ RejectedOptions(last'.req.options))
       => (~last'.out.success /\ files' = files)]_vars

\* The step is a createConfig call on a directory that holds a tsconfig.json.
CreateOnExistingStep ==
    /\ last'.op = "createTsConfig"
    /\ Join(Resolve(last'.req.projectPath), TsConfigName) \in DOMAIN files

\* C10: createConfig on a directory that already holds tsconfig.json returns
\* success=false and leaves the file's content unchanged, whatever the options.
C10_CreateKeepsExisting ==
    [][CreateOnExistingStep => (~last'.out.success /\ files' = files)]_vars

\* C10's case: createConfig with options was refused on the directory whose
\* tsconfig.json was there from the start.
C10_Witness ==
    /\ last.op = "createTsConfig"
    /\ Resolve(last.req.projectPath) = ProjDir
    /\ last.req.options # NoOptions
    /\ last.out.message = "tsconfig.json already exists at this location"

\* The step is an updateConfig call, with a partial update the validator
\* accepts, on a file that createConfig wrote with its defaults; its write does
\* not fail.
UpdateOfDefaultsStep ==
    /\ last'.op = "updateTsConfig"
    /\ last'.req.options # NoOptions
    /\ ~RejectedOptions(last'.req.options)
    /\ Resolve(last'.req.configPath) \in DOMAIN files
    /\ files[Resolve(last'.req.configPath)] = ConfigText(defaultConfig(NoOptions))
    /\ last'.out.message # "write failed"

\* C27: a configuration file that createConfig wrote with its defaults passes
\* the validator of updateConfig: an updateConfig with a valid partial update
\* (such as strict: false) on it returns success and writes the update.
C27_DefaultsPassValidation ==
    [][UpdateOfDefaultsStep =>
          /\ last'.out.kind = "return" /\ last'.out.success
          /\ files'[Resolve(last'.req.configPath)] = ConfigText(MergedNow(last'))]_vars

\* The step is an updateConfig call that returned success.
SuccessfulUpdateStep ==
    /\ last'.op = "updateTsConfig"
    /\ last'.out.kind = "return" /\ last'.out.success

\* C28: a successful updateConfig changes only the compilerOptions keys its
\* update names: each named key takes the update's value, every other
\* compilerOptions key and every other top-level key (include, exclude, keys
\* the server does not know) keeps its value, and no other file changes.
C28_UpdateChangesNamedKeysOnly ==
    [][SuccessfulUpdateStep =>
          LET configPath == Resolve(last'.req.configPath)
              before == files[configPath].cfg
              after == files'[configPath].cfg
          IN /\ files'[configPath].kind = "config"
             /\ \A k \in OptKeys :
                   after.compilerOptions[k] =
                       IF last'.req.options[k] # Undef THEN last'.req.options[k]
                       ELSE before.compilerOptions[k]
             /\ after.include = before.include
             /\ after.exclude = before.exclude
             /\ after.custom = before.custom
             /\ DOMAIN files' = DOMAIN files
             /\ \A p \in DOMAIN files \ {configPath} : files'[p] = files[p]]_vars

\* C28's case: an update of target succeeded on the hand-written file, which
\* still holds its other options, its include and its unknown key.
C28_Witness ==
    /\ last.op = "updateTsConfig"
    /\ last.out.kind = "return" /\ last.out.success
    /\ Resolve(last.req.configPath) = ProjConfig
    /\ last.req.options["target"] = "ES5"
    /\ files[ProjConfig].cfg.compilerOptions["target"] = "ES5"
    /\ files[ProjConfig].cfg.compilerOptions["module"] = "CommonJS"
    /\ files[ProjConfig].cfg.include = "[src/**/*]"
    /\ files[ProjConfig].cfg.custom = "kept"

---------------------------------------------------------------------------
(* Overlapping updateConfig calls: a call runs up to its await of the write,
   other calls are served while it waits, and its write lands later *)

\* The most updateConfig calls in flight at once.
MaxUpdates == 2

\* An updateConfig call in flight: its request, the content it is writing, and
\* the updates of the calls on the same file that returned success meanwhile.
InFlight(req, content) == [req |-> req, content |-> content, returned |-> {}]

\* updateTsConfig up to `await writeFile(...)`: the existence check, the read,
\* the merge and the validation run at once; a call that they end returns, a
\* call that passes them is in flight with the content it has built.
UpdateStart(req) ==
    /\ Len(updates) < MaxUpdates
    /\ \E e \in {updateTsConfig(files, dirs, req, IOOk)} :
       IF e.out.kind = "return" /\ e.out.success
       THEN /\ updates' = Append(updates, InFlight(req, e.files[Resolve(req.configPath)]))
            /\ last' = [NoCall EXCEPT !.op = "updateStart", !.req = req]
       ELSE /\ updates' = updates
            /\ last' = Call("updateTsConfig", req, e, CleanAnswer)
    /\ UNCHANGED <<files, dirs, watcherMap, watchers, recompiles, exited>>

\* The write of a call in flight lands, or fails, and the call returns.
UpdateEnd(k, io) ==
    /\ k \in 1..Len(updates)
    /\ LET u == updates[k]
           configPath == Resolve(u.req.configPath)
           failed == io.failAt = 1
           noted == [j \in 1..Len(updates) |->
                        IF ~failed /\ Resolve(updates[j].req.configPath) = configPath
                        THEN [updates[j] EXCEPT !.returned = @ \cup {u.req.options}]
                        ELSE updates[j]]
       IN /\ files' = IF failed THEN files ELSE writeFileFiles(files, configPath, u.content)
          /\ dirs' = IF failed THEN dirs ELSE writeFileDirs(dirs, configPath)
          /\ updates' = Without(noted, k)
          /\ last' = Call("updateTsConfig", u.req @@ [overlapped |-> u.returned],
                          ConfigEffect(IF failed
                                       THEN ConfigReturn(FALSE, "write failed")
                                       ELSE ConfigReturn(TRUE,
                                                "TypeScript configuration updated successfully"),
                                       files, dirs),
                          CleanAnswer)
    /\ UNCHANGED <<watcherMap, watchers, recompiles, exited>>

\* Updates of /proj/tsconfig.json: of target, of strict, and one the validator
\* rejects.
OverlapRequests ==
    {[configPath |-> AbsPath(ProjConfig), options |-> o] :
        o \in {Options([target |-> "ES5"]), Options([strict |-> "false"]),
               Options([strict |-> "yes"])}}

InitOverlap == InitCompiler /\ InitFs(<<ConfigText(ValidConfig)>>, <<>>)

UpdateStartCall == \E req \in OverlapRequests : UpdateStart(req)

UpdateEndCall == \E k \in 1..Len(updates), io \in ConfigIOOutcomes : UpdateEnd(k, io)

NextOverlap == UpdateStartCall \/ UpdateEndCall

SpecOverlap == InitOverlap /\ [][NextOverlap]_vars

\* The two updates name no compilerOptions key in common.
DisjointKeys(a, b) == \A k \in OptKeys : a[k] = Undef \/ b[k] = Undef

\* C30: no update is lost when two updateConfig calls on one file overlap: when
\* a call returns success, the file holds its values and the values of every
\* call that returned success while it was in flight and set other keys.
C30_NoLostUpdate ==
    (last.op = "updateTsConfig" /\ last.out.kind = "return" /\ last.out.success) =>
        LET onDisk == files[Resolve(last.req.configPath)].cfg.compilerOptions IN
        \A other \in last.req.overlapped :
            DisjointKeys(other, last.req.options) =>
                \A k \in OptKeys :
                    /\ other[k] # Undef => onDisk[k] = other[k]
                    /\ last.req.options[k] # Undef => onDisk[k] = last.req.options[k]

====
